---- MODULE Spec2Model ----
(***************************************************************************)
(* Klyro mini-app: the profile submission view (UserDataForm) with its     *)
(* status poller, progress computation and wallet/ENS address validator;   *)
(* the webhook route (POST of api/opengraph-image); and the transforms of  *)
(* the profile view (ProfileClient) from a profile snapshot to the         *)
(* contribution calendar, the on-chain day series and the chain summary;   *)
(* and the effect by which the profile view fetches its snapshot.          *)
(*                                                                         *)
(* Strings are sequences of one-character strings.  A timer is the record  *)
(* of what setInterval / setTimeout was called with (its period or delay   *)
(* in milliseconds); the browser runs its callback at some later step.     *)
(***************************************************************************)
EXTENDS Integers, Sequences, FiniteSets, TLC

(***************************************************************************)
(* Bounds of the model                                                     *)
(***************************************************************************)
MaxSubmits == 2
MaxInFlight == 2
MaxPieces == 3
MaxEntries == 2
MaxChains == 2

(***************************************************************************)
(* Program constants                                                       *)
(***************************************************************************)
MaxWallets == 3
PollPeriod == 3000
NavDelay == 2000
AddressHexLen == 40

(***************************************************************************)
(* String helpers (String.prototype.trim / endsWith / split)               *)
(***************************************************************************)
IsSpace(c) == c = " "

\* String.prototype.trim
Trim(s) ==
  LET kept == {i \in 1..Len(s) : ~IsSpace(s[i])}
  IN IF kept = {} THEN <<>>
     ELSE SubSeq(s, CHOOSE i \in kept : \A j \in kept : i <= j,
                    CHOOSE i \in kept : \A j \in kept : i >= j)

EndsWith(s, suffix) ==
  /\ Len(suffix) <= Len(s)
  /\ SubSeq(s, Len(s) - Len(suffix) + 1, Len(s)) = suffix

\* s.split('.')[0]: the text before the first '.', the whole string if none
FirstPart(s) ==
  LET dots == {i \in 1..Len(s) : s[i] = "."}
  IN IF dots = {} THEN s
     ELSE SubSeq(s, 1, (CHOOSE i \in dots : \A j \in dots : i <= j) - 1)

DotEth == <<".", "e", "t", "h">>
DotBaseEth == <<".", "b", "a", "s", "e", ".", "e", "t", "h">>

(***************************************************************************)
(* isAddress of the ethers library: an optional 0x prefix followed by      *)
(* exactly 40 hexadecimal digits.  The alphabet of the model has lower     *)
(* case digits only, for which no checksum applies.                        *)
(***************************************************************************)
HexDigits == {"0", "1", "2", "3", "4", "5", "6", "7", "8", "9",
              "a", "b", "c", "d", "e", "f"}

IsHexString(s) == \A i \in 1..Len(s) : s[i] \in HexDigits

isAddress(s) ==
  LET body == IF Len(s) >= 2 /\ SubSeq(s, 1, 2) = <<"0", "x">>
              THEN SubSeq(s, 3, Len(s)) ELSE s
  IN Len(body) = AddressHexLen /\ IsHexString(body)

isValidAddress_FirstLabelIgnored(address) ==
  IF address = <<>> THEN TRUE
  ELSE IF isAddress(address) THEN TRUE
  ELSE IF EndsWith(address, DotEth) \/ EndsWith(address, DotBaseEth)
       THEN Len(address) > Len(DotEth)
       ELSE FALSE

isValidAddress(address) ==
  IF address = <<>> THEN TRUE
  ELSE IF isAddress(address) THEN TRUE
  ELSE IF EndsWith(address, DotEth) \/ EndsWith(address, DotBaseEth)
       THEN Len(FirstPart(address)) > 0
       ELSE FALSE

(***************************************************************************)
(* Status responses (StatusResponse, ProgressData)                         *)
(***************************************************************************)
ProgressStatus == {"PROCESSING", "COMPLETED", "FAILED"}

Undefined == [kind |-> "undefined"]
Null == [kind |-> "null"]

ProgressData ==
  [kind : {"progress"}, githubData : ProgressStatus,
   contractsData : ProgressStatus, onchainData : ProgressStatus]

MkProgress(g, c, o) ==
  [kind |-> "progress", githubData |-> g, contractsData |-> c, onchainData |-> o]

\* response.data of a well-formed status response
StatusResponse(status, progress) ==
  [kind |-> "body", success |-> TRUE,
   data |-> [kind |-> "data", status |-> status, progress |-> progress]]

\* a 2xx response whose body has no data member
MalformedResponse == [kind |-> "body", success |-> FALSE, data |-> Undefined]

AllResponses ==
  {StatusResponse(s, p) : s \in ProgressStatus, p \in ProgressData \cup {Undefined}}

\* the responses the polling specification draws from: the top-level status
\* is not derived from the sub-tasks
SampleResponses ==
  { StatusResponse("PROCESSING", Undefined),
    StatusResponse("COMPLETED", MkProgress("COMPLETED", "COMPLETED", "PROCESSING")),
    StatusResponse("FAILED", MkProgress("COMPLETED", "FAILED", "PROCESSING")) }

\* Object.values(progress)
ObjectValues(progress) ==
  <<progress.githubData, progress.contractsData, progress.onchainData>>

calculateProgress_CountsNonProcessing(sd) ==
  IF sd.kind = "null" THEN 0
  ELSE IF sd.data.kind = "undefined" THEN 0
  ELSE IF sd.data.progress.kind = "undefined" THEN 0
  ELSE LET progressItems == ObjectValues(sd.data.progress)
           completedItems ==
             Cardinality({i \in DOMAIN progressItems : progressItems[i] # "PROCESSING"})
       IN (completedItems * 100) \div Len(progressItems)

\* Math.floor((completedItems / progressItems.length) * 100); with three
\* items the floating-point quotient and product round to the same integer
\* as the exact computation
calculateProgress(sd) ==
  IF sd.kind = "null" THEN 0
  ELSE IF sd.data.kind = "undefined" THEN 0
  ELSE IF sd.data.progress.kind = "undefined" THEN 0
  ELSE LET progressItems == ObjectValues(sd.data.progress)
           completedItems ==
             Cardinality({i \in DOMAIN progressItems : progressItems[i] = "COMPLETED"})
       IN (completedItems * 100) \div Len(progressItems)

(***************************************************************************)
(* The webhook route (POST): JSON values, base64 and JSON.parse            *)
(***************************************************************************)
EmptyString == [kind |-> "string", text |-> <<>>]

\* a non-empty string; `decoded` is the text its base64 decoding gives
Base64(decoded) == [kind |-> "string", text |-> <<"b", "6", "4">>, decoded |-> decoded]

\* a text that is not JSON, and the JSON text of a value
NotJson == [kind |-> "text", json |-> FALSE]
JsonText(value) == [kind |-> "text", json |-> TRUE, value |-> value]

Number(n) == [kind |-> "number", value |-> n]

\* JavaScript truthiness of the values above
Truthy(v) ==
  CASE v.kind = "undefined" -> FALSE
    [] v.kind = "null" -> FALSE
    [] v.kind = "string" -> v.text # <<>>
    [] v.kind = "number" -> v.value # 0
    [] OTHER -> TRUE

WebhookEvents ==
  {"frame_added", "frame_removed", "notifications_enabled",
   "notifications_disabled", "frame_renamed"}

EventName(name) == [kind |-> "string", text |-> name]

NotificationDetails == [kind |-> "object", url |-> "u", token |-> "t"]

\* the values the decoded payload can be
EventPayloads ==
  [kind : {"object"},
   event : {Undefined} \cup {EventName(e) : e \in WebhookEvents},
   notificationDetails : {Undefined, Null, NotificationDetails}]

PayloadFields ==
  {Undefined, EmptyString, Number(7), Base64(NotJson),
   Base64(JsonText(Null)), Base64(JsonText(Number(7)))}
  \cup {Base64(JsonText(v)) : v \in EventPayloads}

TopFields == {Undefined, EmptyString, Base64(NotJson)}

\* what request.json() gives: it rejects, or resolves to a JSON value
InvalidJson == [kind |-> "invalid"]

WebhookBodies ==
  {InvalidJson, Null, Number(7), EmptyString}
  \cup [kind : {"object"}, header : TopFields, payload : PayloadFields,
        signature : TopFields]

\* body.<name>: undefined for a value without that property; reading a
\* property of null throws, which the callers test before
Field(v, name) ==
  IF v.kind = "object" /\ name \in DOMAIN v THEN v[name] ELSE Undefined

InvalidPayload == [status |-> 400, body |-> [error |-> "Invalid webhook payload"]]
Success == [status |-> 200, body |-> [success |-> TRUE]]
InternalError == [status |-> 500, body |-> [error |-> "Internal server error"]]

\* what one run of the route did: its response, whether it decoded the
\* payload, and the branch of the switch it took ("none" if not reached)
Outcome(response, decoded, branch) ==
  [response |-> response, decoded |-> decoded, branch |-> branch]

\* the branch of switch (payload.event)
Branch(event) ==
  IF event.kind = "string" /\ event.text \in
       {"frame_added", "frame_removed", "notifications_enabled",
        "notifications_disabled"}
  THEN event.text
  ELSE "default"

POST_MissingIs500(body) ==
  IF body.kind = "invalid" \/ body.kind = "null"
  THEN Outcome(InternalError, FALSE, "none")
  ELSE IF \/ ~Truthy(Field(body, "header"))
          \/ ~Truthy(Field(body, "payload"))
          \/ ~Truthy(Field(body, "signature"))
  THEN Outcome(InternalError, FALSE, "none")
  ELSE Outcome(Success, TRUE, "default")

POST_UnknownEventIs500(body) ==
  IF body.kind = "invalid" \/ body.kind = "null"
  THEN Outcome(InternalError, FALSE, "none")
  ELSE IF \/ ~Truthy(Field(body, "header"))
          \/ ~Truthy(Field(body, "payload"))
          \/ ~Truthy(Field(body, "signature"))
  THEN Outcome(InvalidPayload, FALSE, "none")
  ELSE LET encoded == Field(body, "payload") IN
       IF encoded.kind # "string" THEN Outcome(InternalError, TRUE, "none")
       ELSE IF ~encoded.decoded.json THEN Outcome(InternalError, TRUE, "none")
       ELSE LET payload == encoded.decoded.value IN
            IF payload.kind = "null" THEN Outcome(InternalError, TRUE, "none")
            ELSE IF Branch(Field(payload, "event")) = "default"
                 THEN Outcome(InternalError, TRUE, "default")
                 ELSE Outcome(Success, TRUE, Branch(Field(payload, "event")))

\* export async function POST(request): the whole body is inside try/catch
POST(body) ==
  \* await request.json() rejected, or body.header read from null
  IF body.kind = "invalid" \/ body.kind = "null"
  THEN Outcome(InternalError, FALSE, "none")
  ELSE IF \/ ~Truthy(Field(body, "header"))
          \/ ~Truthy(Field(body, "payload"))
          \/ ~Truthy(Field(body, "signature"))
  THEN Outcome(InvalidPayload, FALSE, "none")
  ELSE LET encoded == Field(body, "payload") IN
       \* Buffer.from(x, 'base64') throws a TypeError for a number
       IF encoded.kind # "string" THEN Outcome(InternalError, TRUE, "none")
       \* JSON.parse throws a SyntaxError
       ELSE IF ~encoded.decoded.json THEN Outcome(InternalError, TRUE, "none")
       ELSE LET payload == encoded.decoded.value IN
            \* payload.event read from null
            IF payload.kind = "null" THEN Outcome(InternalError, TRUE, "none")
            ELSE Outcome(Success, TRUE, Branch(Field(payload, "event")))

(***************************************************************************)
(* State of the submission view and of the browser around it               *)
(***************************************************************************)
VARIABLES
  mounted,          \* the UserDataForm instance is mounted
  wallets,          \* useState: sequence of [id, address, isValid]
  githubUsername,   \* useState
  isSubmitting,     \* useState
  isModalOpen,      \* useState
  statusData,       \* useState: Null or the last response body
  pollingInterval,  \* useState: 0 (null) or an interval handle
  effectHandle,     \* handle captured by the registered cleanup closure
  progressShown,    \* the rendered value of calculateProgress()
  post,             \* <<>> or <<the POST /fbi/analyze-user in flight>>
  intervals,        \* live interval timers: [id, username, period]
  requests,         \* per interval handle: GET /fbi/status requests in flight
  timeouts,         \* per interval handle: the delays of the navigation
                    \* timeouts its callback has pending
  location,         \* window.location.href (path part)
  hist,             \* per interval handle: what its callback has done
  webhook,          \* the webhook route: the request it was sent and its answer
  timeZone,         \* the time zone of the browser that shows a profile
  currentYear,      \* new Date().getFullYear() in that browser
  userData,         \* ProfileClient useState: Null or the profile snapshot
  selectedGithubYear,   \* ProfileClient useState: Null or a year
  selectedOnchainYear,  \* ProfileClient useState: Null or a year
  githubActivity,   \* render: getGithubActivityData(selectedGithubYear)
  onchainActivity,  \* render: getOnchainActivityData(selectedOnchainYear)
  onchainData,      \* render: processOnchainData()
  usernameProp,     \* ProfileClient: the username prop
  fetchedFor,       \* <<>> or <<the username the fetch effect last ran for>>
  loading,          \* ProfileClient useState
  error,            \* ProfileClient useState: "" or a message
  fetches,          \* GET /fbi/status/<username> requests in flight: [id, username]
  issued            \* the number of such requests issued so far

vars == <<mounted, wallets, githubUsername, isSubmitting, isModalOpen,
          statusData, pollingInterval, effectHandle, progressShown, post,
          intervals, requests, timeouts, location, hist,
          webhook, timeZone, currentYear, userData, selectedGithubYear,
          selectedOnchainYear, githubActivity, onchainActivity, onchainData,
          usernameProp, fetchedFor, loading, error, fetches, issued>>

formVars == <<wallets, githubUsername, isSubmitting, isModalOpen>>
reactVars == <<mounted, statusData, pollingInterval, effectHandle, progressShown>>
browserVars == <<intervals, requests, timeouts, location>>
profileVars == <<timeZone, currentYear, userData, selectedGithubYear,
                 selectedOnchainYear, githubActivity, onchainActivity, onchainData,
                 usernameProp, fetchedFor, loading, error, fetches, issued>>
fetchVars == <<usernameProp, fetchedFor, loading, error, fetches, issued>>

FormPath == <<"/">>

\* inputs typed into the form
UsernameInputs == { <<>>, <<" ", "a", " ">> }
WalletInputs == { <<"a", ".", "e", "t", "h">>, <<"x">> }

InitialWallets == << [id |-> 1, address |-> <<>>, isValid |-> TRUE] >>

\* the state of a freshly constructed view
Constructed ==
  /\ mounted = TRUE
  /\ githubUsername = <<>>
  /\ isSubmitting = FALSE
  /\ isModalOpen = FALSE
  /\ statusData = Null
  /\ pollingInterval = 0
  /\ effectHandle = 0
  /\ progressShown = 0
  /\ post = <<>>
  /\ intervals = {}
  /\ requests = <<>>
  /\ timeouts = <<>>
  /\ location = FormPath
  /\ hist = <<>>

\* nothing but the submission view is in use
\* no profile view has fetched anything
NoFetch ==
  /\ usernameProp = <<>>
  /\ fetchedFor = <<>>
  /\ loading = TRUE
  /\ error = ""
  /\ fetches = {}
  /\ issued = 0

FormOnly ==
  /\ NoFetch
  /\ webhook = Undefined
  /\ timeZone = Undefined
  /\ currentYear = 0
  /\ userData = Null
  /\ selectedGithubYear = 0
  /\ selectedOnchainYear = 0
  /\ githubActivity = Undefined
  /\ onchainActivity = Undefined
  /\ onchainData = Undefined

\* the polling specification starts with the first wallet field filled in
Init ==
  /\ Constructed
  /\ FormOnly
  /\ wallets \in { << [id |-> 1, address |-> a, isValid |-> isValidAddress(a)] >> :
                     a \in WalletInputs }

LiveHandles == {t.id : t \in intervals}

\* clearInterval(handle): a no-op for null and for a handle already cleared
clearInterval(handle) == {t \in intervals : t.id # handle}

\* a render with a new pollingInterval is not yet committed
EffectPending == mounted /\ effectHandle # pollingInterval

\* React commits pending renders and runs their effects before it handles a
\* user event
Interactive == mounted /\ ~EffectPending

(***************************************************************************)
(* Form editing; the open modal covers the form                            *)
(***************************************************************************)
setGithubUsername(value) ==
  /\ Interactive
  /\ ~isModalOpen
  /\ githubUsername' = value
  /\ UNCHANGED <<wallets, isSubmitting, isModalOpen, post, hist>>
  /\ UNCHANGED reactVars
  /\ UNCHANGED browserVars
  /\ UNCHANGED <<webhook, profileVars>>

updateWallet(id, address) ==
  /\ Interactive
  /\ ~isModalOpen
  /\ wallets' = [i \in DOMAIN wallets |->
                   IF wallets[i].id = id
                   THEN [wallets[i] EXCEPT !.address = address,
                                           !.isValid = isValidAddress(address)]
                   ELSE wallets[i]]
  /\ UNCHANGED <<githubUsername, isSubmitting, isModalOpen, post, hist>>
  /\ UNCHANGED reactVars
  /\ UNCHANGED browserVars
  /\ UNCHANGED <<webhook, profileVars>>

\* the Dialog's onOpenChange={setIsModalOpen} when the user dismisses it
closeModal ==
  /\ Interactive
  /\ isModalOpen
  /\ isModalOpen' = FALSE
  /\ UNCHANGED <<wallets, githubUsername, isSubmitting, post, hist>>
  /\ UNCHANGED reactVars
  /\ UNCHANGED browserVars
  /\ UNCHANGED <<webhook, profileVars>>

(***************************************************************************)
(* handleSubmit, up to the await of the POST                               *)
(***************************************************************************)
\* the submit button is enabled and not covered by the modal
SubmitEnabled ==
  /\ Interactive
  /\ ~isSubmitting
  /\ ~isModalOpen

\* the browser's constraint validation of the `required` inputs
RequiredFilled ==
  /\ githubUsername # <<>>
  /\ wallets[1].address # <<>>

CanSubmit == SubmitEnabled /\ RequiredFilled

allValid_FirstOnly == isValidAddress(wallets[1].address)

allValid ==
  \A i \in DOMAIN wallets :
    IF wallets[i].address = <<>> /\ i > 1 THEN TRUE
    ELSE isValidAddress(wallets[i].address)

\* wallets.map(w => w.address).filter(a => a.trim() !== "")
RECURSIVE PayloadAddresses(_)
PayloadAddresses(ws) ==
  IF ws = <<>> THEN <<>>
  ELSE IF Trim(Head(ws).address) # <<>>
       THEN <<Head(ws).address>> \o PayloadAddresses(Tail(ws))
       ELSE PayloadAddresses(Tail(ws))

\* the handler, as React runs it for a submit event of the form
handleSubmit ==
  /\ SubmitEnabled
  /\ IF ~allValid
     THEN /\ wallets' = [i \in DOMAIN wallets |->
                           [wallets[i] EXCEPT !.isValid = isValidAddress(wallets[i].address)]]
          /\ UNCHANGED <<isSubmitting, post>>
     ELSE /\ Len(hist) < MaxSubmits
          /\ isSubmitting' = TRUE
          /\ post' = << [githubUsername |-> githubUsername,
                         payload |-> [githubUsername |-> Trim(githubUsername),
                                      addresses |-> PayloadAddresses(wallets)]] >>
          /\ UNCHANGED wallets
  /\ UNCHANGED <<githubUsername, isModalOpen, hist>>
  /\ UNCHANGED reactVars
  /\ UNCHANGED browserVars
  /\ UNCHANGED <<webhook, profileVars>>

\* the user submits the form: the browser delivers the submit event once the
\* `required` inputs are filled in
submitForm == RequiredFilled /\ handleSubmit

(***************************************************************************)
(* startPolling and the rest of handleSubmit                               *)
(***************************************************************************)
\* history of one interval: the username its closure holds, the trimmed
\* username of the submit that started it, how many COMPLETED responses its
\* callback has seen, how many navigations it has scheduled, and whether it
\* has seen a FAILED response
NewHist(username, submitted) ==
  [username |-> username, submitted |-> submitted,
   completed |-> 0, navs |-> 0, failed |-> FALSE]

\* the username the continuation of handleSubmit passes to startPolling
PollUsername_Current(p) == Trim(githubUsername)

PollUsername(p) == Trim(p.githubUsername)

\* await api.post resolved: setIsModalOpen(true); startPolling(...); finally
postResolved ==
  /\ post # <<>>
  /\ LET username == PollUsername(post[1])
         interval == Len(hist) + 1
     IN /\ intervals' = intervals \cup
                          {[id |-> interval, username |-> username, period |-> PollPeriod]}
        /\ requests' = Append(requests, 0)
        /\ timeouts' = Append(timeouts, <<>>)
        /\ hist' = Append(hist, NewHist(username, post[1].payload.githubUsername))
        /\ IF mounted
           THEN /\ isModalOpen' = TRUE
                /\ pollingInterval' = interval
                /\ isSubmitting' = FALSE
           ELSE UNCHANGED <<isModalOpen, pollingInterval, isSubmitting>>
  /\ post' = <<>>
  /\ UNCHANGED <<mounted, wallets, githubUsername, statusData, effectHandle,
                 progressShown, location>>
  /\ UNCHANGED <<webhook, profileVars>>

\* a catch block that opens the modal all the same
postRejected_OpensModal ==
  /\ post # <<>>
  /\ post' = <<>>
  /\ IF mounted
     THEN isSubmitting' = FALSE /\ isModalOpen' = TRUE
     ELSE UNCHANGED <<isSubmitting, isModalOpen>>
  /\ UNCHANGED <<wallets, githubUsername, hist>>
  /\ UNCHANGED reactVars
  /\ UNCHANGED browserVars
  /\ UNCHANGED <<webhook, profileVars>>

\* await api.post rejected: catch; finally
postRejected ==
  /\ post # <<>>
  /\ post' = <<>>
  /\ IF mounted THEN isSubmitting' = FALSE ELSE UNCHANGED isSubmitting
  /\ UNCHANGED <<wallets, githubUsername, isModalOpen, hist>>
  /\ UNCHANGED reactVars
  /\ UNCHANGED browserVars
  /\ UNCHANGED <<webhook, profileVars>>

(***************************************************************************)
(* The cleanup effect on [pollingInterval]                                 *)
(***************************************************************************)
runEffect_ClearsCurrent ==
  /\ EffectPending
  /\ intervals' = clearInterval(pollingInterval)
  /\ effectHandle' = pollingInterval
  /\ UNCHANGED <<mounted, statusData, pollingInterval, progressShown, post, hist,
                 requests, timeouts, location>>
  /\ UNCHANGED formVars
  /\ UNCHANGED <<webhook, profileVars>>

\* React commits the render with the new pollingInterval: the cleanup of the
\* previous effect runs with the handle it captured, then the effect is
\* registered again
runEffect ==
  /\ EffectPending
  /\ intervals' = clearInterval(effectHandle)
  /\ effectHandle' = pollingInterval
  /\ UNCHANGED <<mounted, statusData, pollingInterval, progressShown, post, hist,
                 requests, timeouts, location>>
  /\ UNCHANGED formVars
  /\ UNCHANGED <<webhook, profileVars>>

\* the user navigates away and the view unmounts: the registered cleanup runs
unmount ==
  /\ Interactive
  /\ mounted' = FALSE
  /\ intervals' = clearInterval(effectHandle)
  /\ UNCHANGED <<statusData, pollingInterval, effectHandle, progressShown, post,
                 hist, requests, timeouts, location>>
  /\ UNCHANGED formVars
  /\ UNCHANGED <<webhook, profileVars>>

(***************************************************************************)
(* The interval callback of startPolling                                   *)
(***************************************************************************)
RECURSIVE SumSeq(_)
SumSeq(q) == IF q = <<>> THEN 0 ELSE Head(q) + SumSeq(Tail(q))

InFlight == SumSeq(requests)

\* the interval fires: api.get(`/fbi/status/${username}`) is issued.  Beyond
\* MaxInFlight requests in flight, a further request is one that never gets
\* an answer.  A pending commit takes milliseconds, a period is 3000 ms: no
\* interval fires before the commit.
pollFire(t) ==
  /\ t \in intervals
  /\ ~EffectPending
  /\ requests' = [requests EXCEPT ![t.id] = IF InFlight < MaxInFlight THEN @ + 1 ELSE @]
  /\ UNCHANGED <<post, intervals, timeouts, location, hist>>
  /\ UNCHANGED reactVars
  /\ UNCHANGED formVars
  /\ UNCHANGED <<webhook, profileVars>>

\* setStatusData(response.data) and its re-render
setStatusData(body) ==
  IF mounted
  THEN /\ statusData' = body
       /\ progressShown' = calculateProgress(body)
  ELSE UNCHANGED <<statusData, progressShown>>

\* if (status === "COMPLETED") ... else if (status === "FAILED") ...
StopsOn_OnlyFailed(status) == status = "FAILED"

StopsOn(status) == status = "COMPLETED" \/ status = "FAILED"


RedirectsOn(status) == status = "COMPLETED"

\* a callback that drops the response of a request whose interval has been
\* cleared in the meantime
pollResponse_DiscardsStale(timer, body) ==
  LET status == body.data.status
      live == timer \in LiveHandles
  IN
  /\ timer \in DOMAIN requests
  /\ requests[timer] > 0
  /\ requests' = [requests EXCEPT ![timer] = @ - 1]
  /\ IF live THEN setStatusData(body) ELSE UNCHANGED <<statusData, progressShown>>
  /\ intervals' = IF StopsOn(status) THEN clearInterval(timer) ELSE intervals
  /\ timeouts' = IF live /\ RedirectsOn(status)
                 THEN [timeouts EXCEPT ![timer] = Append(@, NavDelay)]
                 ELSE timeouts
  /\ hist' = [hist EXCEPT
       ![timer].completed = IF live /\ status = "COMPLETED" THEN @ + 1 ELSE @,
       ![timer].navs = IF live /\ RedirectsOn(status) THEN @ + 1 ELSE @,
       ![timer].failed = @ \/ (live /\ status = "FAILED")]
  /\ UNCHANGED <<mounted, pollingInterval, effectHandle, post, location>>
  /\ UNCHANGED formVars
  /\ UNCHANGED <<webhook, profileVars>>

\* a GET of interval `timer` resolved with a well-formed body
pollResponse(timer, body) ==
  LET status == body.data.status IN
  /\ timer \in DOMAIN requests
  /\ requests[timer] > 0
  /\ requests' = [requests EXCEPT ![timer] = @ - 1]
  /\ setStatusData(body)
  /\ intervals' = IF StopsOn(status) THEN clearInterval(timer) ELSE intervals
  /\ timeouts' = IF RedirectsOn(status)
                 THEN [timeouts EXCEPT ![timer] = Append(@, NavDelay)]
                 ELSE timeouts
  /\ hist' = [hist EXCEPT
       ![timer].completed = IF status = "COMPLETED" THEN @ + 1 ELSE @,
       ![timer].navs = IF RedirectsOn(status) THEN @ + 1 ELSE @,
       ![timer].failed = @ \/ status = "FAILED"]
  /\ UNCHANGED <<mounted, pollingInterval, effectHandle, post, location>>
  /\ UNCHANGED formVars
  /\ UNCHANGED <<webhook, profileVars>>

\* the GET resolved with a body that has no data: setStatusData runs, then
\* response.data.data.status throws and the catch logs it
pollMalformed(timer) ==
  /\ timer \in DOMAIN requests
  /\ requests[timer] > 0
  /\ requests' = [requests EXCEPT ![timer] = @ - 1]
  /\ setStatusData(MalformedResponse)
  /\ UNCHANGED <<mounted, pollingInterval, effectHandle, post, intervals,
                 timeouts, location, hist>>
  /\ UNCHANGED formVars
  /\ UNCHANGED <<webhook, profileVars>>

pollError_Stops(timer) ==
  /\ timer \in DOMAIN requests
  /\ requests[timer] > 0
  /\ requests' = [requests EXCEPT ![timer] = @ - 1]
  /\ intervals' = clearInterval(timer)
  /\ UNCHANGED <<post, timeouts, location, hist>>
  /\ UNCHANGED reactVars
  /\ UNCHANGED formVars
  /\ UNCHANGED <<webhook, profileVars>>

\* the GET rejected (transport error, non-2xx status): the catch logs it
pollError(timer) ==
  /\ timer \in DOMAIN requests
  /\ requests[timer] > 0
  /\ requests' = [requests EXCEPT ![timer] = @ - 1]
  /\ UNCHANGED <<post, intervals, timeouts, location, hist>>
  /\ UNCHANGED reactVars
  /\ UNCHANGED formVars
  /\ UNCHANGED <<webhook, profileVars>>

ProfileUrl(username) == <<"/">> \o username

\* the timeout of the COMPLETED branch fires: window.location.href = `/${username}`
navigate(timer) ==
  /\ timer \in DOMAIN timeouts
  /\ timeouts[timer] # <<>>
  /\ timeouts' = [timeouts EXCEPT ![timer] = Tail(@)]
  /\ location' = ProfileUrl(hist[timer].username)
  /\ UNCHANGED <<post, intervals, requests, hist>>
  /\ UNCHANGED reactVars
  /\ UNCHANGED formVars
  /\ UNCHANGED <<webhook, profileVars>>

Next ==
  \/ \E u \in UsernameInputs : setGithubUsername(u)
  \/ closeModal
  \/ submitForm
  \/ postResolved
  \/ postRejected
  \/ runEffect
  \/ unmount
  \/ \E t \in intervals : pollFire(t)
  \/ \E timer \in DOMAIN requests, body \in SampleResponses : pollResponse(timer, body)
  \/ \E timer \in DOMAIN requests : pollMalformed(timer)
  \/ \E timer \in DOMAIN requests : pollError(timer)
  \/ \E timer \in DOMAIN timeouts : navigate(timer)

Spec == Init /\ [][Next]_vars

\* the event loop runs the callback of every pending timeout
FairSpec ==
  /\ Spec
  /\ WF_vars(\E timer \in DOMAIN timeouts : navigate(timer))

(***************************************************************************)
(* Status poller: properties                                               *)
(***************************************************************************)
Handles == 1..MaxSubmits

\* C1: once the callback of an interval has processed a COMPLETED response,
\* that interval is cleared, stays cleared, and issues no further request.
C1_ClearedOnCompleted ==
  [][\A id \in DOMAIN hist' :
       hist'[id].completed > 0 =>
         /\ id \notin LiveHandles'
         /\ (id \in DOMAIN hist /\ hist[id].completed > 0
               => requests'[id] <= requests[id])]_vars

C1_Witness ==
  \E id \in DOMAIN hist :
    /\ hist[id].completed > 0
    /\ requests[id] = 0
    /\ timeouts[id] = <<>>
    /\ location = ProfileUrl(hist[id].submitted)

\* C2: every COMPLETED observation schedules a navigation timeout of 2000 ms
\* to "/" + the trimmed username of the submit; a pending timeout is removed
\* only by firing, which sets the location to that profile URL; and every
\* pending timeout eventually fires.
C2_Scheduled ==
  \A id \in DOMAIN hist :
    hist'[id].completed > hist[id].completed =>
      timeouts'[id] = Append(timeouts[id], 2000)

C2_NotCancelled ==
  \A id \in DOMAIN timeouts :
    \/ timeouts'[id] = timeouts[id]
    \/ timeouts'[id] = Append(timeouts[id], 2000)
    \/ /\ timeouts[id] # <<>>
       /\ timeouts'[id] = Tail(timeouts[id])
       /\ location' = ProfileUrl(hist[id].submitted)

C2_NavigationFires ==
  /\ [][C2_Scheduled /\ C2_NotCancelled]_vars
  /\ \A id \in Handles : []<>(id \in DOMAIN timeouts => timeouts[id] = <<>>)

C2_Witness ==
  \E id \in DOMAIN hist :
    /\ hist[id].completed > 0
    /\ timeouts[id] = <<>>
    /\ location = ProfileUrl(hist[id].submitted)
    /\ ~mounted

\* C3: in one polling session navigation is scheduled at most once, and
\* never without a COMPLETED response having been observed.
C3_OneTimeRedirect ==
  \A id \in DOMAIN hist :
    /\ hist[id].navs <= 1
    /\ (hist[id].navs > 0 => hist[id].completed > 0)

\* C4: once the only polling session of a mounted view has observed FAILED,
\* its interval is cleared and the held snapshot is a FAILED snapshot.
C4_FailedSnapshotStays ==
  (mounted /\ Len(hist) = 1 /\ post = <<>> /\ hist[1].failed) =>
    /\ 1 \notin LiveHandles
    /\ statusData.kind = "body"
    /\ statusData.data.kind = "data"
    /\ statusData.data.status = "FAILED"

\* C5: handling a transport or parse error of a poll leaves every interval
\* live and schedules no navigation.
C5_ErrorsNotTerminal ==
  [][(\E timer \in DOMAIN requests : pollError(timer) \/ pollMalformed(timer))
       => /\ intervals' = intervals
          /\ timeouts' = timeouts
          /\ hist' = hist]_vars

C5_Witness ==
  /\ Len(hist) = 1
  /\ statusData = MalformedResponse
  /\ 1 \in LiveHandles
  /\ requests[1] > 0
  /\ timeouts[1] = <<>>

NoTerminalObserved ==
  \A id \in DOMAIN hist : hist[id].completed = 0 /\ ~hist[id].failed

\* C6: while the view is mounted and no COMPLETED or FAILED response has
\* been observed, the interval started by the latest submit is live with a
\* period of 3000 ms.
C6_PollingContinues ==
  (mounted /\ hist # <<>> /\ NoTerminalObserved) =>
    \E t \in intervals : t.id = Len(hist) /\ t.period = 3000

C6_Witness ==
  /\ mounted
  /\ hist # <<>>
  /\ NoTerminalObserved
  /\ statusData = MalformedResponse
  /\ requests[Len(hist)] >= 2

\* C7: at most one interval is live while the view is mounted.
C7_AtMostOneInterval == mounted => Cardinality(intervals) <= 1

\* C8: after the view has unmounted no interval is live.
C8_NoIntervalAfterUnmount == ~mounted => intervals = {}

(***************************************************************************)
(* Progress percentage                                                     *)
(***************************************************************************)
\* the modal renders {calculateProgress()}% from the snapshot it holds
renderProgress ==
  /\ progressShown = -1
  /\ progressShown' = calculateProgress(statusData)
  /\ UNCHANGED <<mounted, statusData, pollingInterval, effectHandle, post, hist>>
  /\ UNCHANGED formVars
  /\ UNCHANGED browserVars
  /\ UNCHANGED <<webhook, profileVars>>

\* any snapshot the view can hold, not yet rendered
InitProgress ==
  /\ mounted = TRUE
  /\ wallets = InitialWallets
  /\ githubUsername = <<>>
  /\ isSubmitting = FALSE
  /\ isModalOpen \in BOOLEAN
  /\ statusData \in AllResponses \cup {Null, MalformedResponse}
  /\ pollingInterval = 0
  /\ effectHandle = 0
  /\ progressShown = -1
  /\ post = <<>>
  /\ intervals = {}
  /\ requests = <<>>
  /\ timeouts = <<>>
  /\ location = FormPath
  /\ hist = <<>>
  /\ FormOnly

ProgressSpec == InitProgress /\ [][renderProgress]_vars

CompletedSubtasks(progress) ==
  (IF progress.githubData = "COMPLETED" THEN 1 ELSE 0)
  + (IF progress.contractsData = "COMPLETED" THEN 1 ELSE 0)
  + (IF progress.onchainData = "COMPLETED" THEN 1 ELSE 0)

HoldsProgress(sd) ==
  /\ sd.kind = "body"
  /\ sd.data.kind = "data"
  /\ sd.data.progress.kind = "progress"

\* C9: the rendered progress is floor(100 * c / 3), c the number of the
\* three sub-task states equal to COMPLETED, and 0 when no snapshot or no
\* progress section is held, whatever the top-level status.
C9_ProgressPercentage ==
  progressShown # -1 =>
    progressShown =
      IF HoldsProgress(statusData)
      THEN (100 * CompletedSubtasks(statusData.data.progress)) \div 3
      ELSE 0

C9_Witness ==
  /\ progressShown = 66
  /\ HoldsProgress(statusData)
  /\ statusData.data.status = "FAILED"
  /\ statusData.data.progress.onchainData = "FAILED"

(***************************************************************************)
(* Wallet / ENS address validator                                          *)
(***************************************************************************)
Hex40 == [i \in 1..AddressHexLen |-> "a"]

Pieces ==
  { <<".">>, <<"a">>, DotEth, <<".", "b", "a", "s", "e">>, <<"0", "x">>, Hex40 }

\* the strings made of at most n pieces
RECURSIVE Concats(_)
Concats(n) ==
  IF n = 0 THEN {<<>>}
  ELSE LET shorter == Concats(n - 1)
       IN shorter \cup {p \o q : p \in shorter, q \in Pieces}

AddressInputs == Concats(MaxPieces)

InitValidator == Constructed /\ FormOnly /\ wallets = InitialWallets

NextValidator ==
  \E i \in DOMAIN wallets, a \in AddressInputs : updateWallet(wallets[i].id, a)

ValidatorSpec == InitValidator /\ [][NextValidator]_vars

\* the text of s before its suffix
BeforeSuffix(s, suffix) == SubSeq(s, 1, Len(s) - Len(suffix))

WalletEdits == { <<>>, <<"a", ".", "e", "t", "h">>, <<"x">> }

\* the values of Date.now(), in milliseconds, that become wallet ids: ids are
\* only compared for equality, and a call within the millisecond (or the
\* coarser step of the browser's clock) of an earlier one returns its value;
\* 1 is the id of the constructed wallet
DateNow == 2..(MaxWallets + 1)

addWallet(now) ==
  /\ Interactive
  /\ ~isModalOpen
  /\ Len(wallets) < MaxWallets
  /\ wallets' = Append(wallets, [id |-> now, address |-> <<>>, isValid |-> TRUE])
  /\ UNCHANGED <<githubUsername, isSubmitting, isModalOpen, post, hist>>
  /\ UNCHANGED reactVars
  /\ UNCHANGED browserVars
  /\ UNCHANGED <<webhook, profileVars>>

\* wallets.filter(wallet => wallet.id !== id)
RECURSIVE WithoutId(_, _)
WithoutId(ws, id) ==
  IF ws = <<>> THEN <<>>
  ELSE IF Head(ws).id # id
       THEN <<Head(ws)>> \o WithoutId(Tail(ws), id)
       ELSE WithoutId(Tail(ws), id)

removeWallet(id) ==
  /\ Interactive
  /\ ~isModalOpen
  /\ Len(wallets) > 1
  /\ wallets' = WithoutId(wallets, id)
  /\ UNCHANGED <<githubUsername, isSubmitting, isModalOpen, post, hist>>
  /\ UNCHANGED reactVars
  /\ UNCHANGED browserVars
  /\ UNCHANGED <<webhook, profileVars>>

\* handleSubmit applied to every state the form can hold: the handler
\* runs for each submit event React receives, whether or not the browser's
\* constraint validation preceded it
NextSubmit ==
  \/ \E u \in UsernameInputs : setGithubUsername(u)
  \/ \E i \in DOMAIN wallets, a \in WalletEdits : updateWallet(wallets[i].id, a)
  \/ \E now \in DateNow : addWallet(now)
  \/ \E i \in DOMAIN wallets : removeWallet(wallets[i].id)
  \/ handleSubmit
  \/ postResolved
  \/ postRejected

InitSubmit == Constructed /\ FormOnly /\ wallets = InitialWallets

SubmitSpec == InitSubmit /\ [][NextSubmit]_vars

\* a step that sends POST /fbi/analyze-user
SendsPost == post = <<>> /\ post' # <<>>

SomeAddressInvalid ==
  \E i \in DOMAIN wallets : ~isValidAddress(wallets[i].address)

\* C12: a submit with a wallet address that fails the validator sends no
\* POST, does not open the modal, starts no interval, leaves isSubmitting
\* false and sets each wallet's isValid flag to the validator's result.
C12_InvalidBlocksSubmit ==
  [][(SomeAddressInvalid /\ handleSubmit) =>
       /\ post' = <<>>
       /\ ~isModalOpen'
       /\ intervals' = intervals
       /\ pollingInterval' = pollingInterval
       /\ ~isSubmitting'
       /\ \A i \in DOMAIN wallets :
            /\ wallets'[i].address = wallets[i].address
            /\ wallets'[i].isValid = isValidAddress(wallets[i].address)
       /\ Len(wallets') = Len(wallets)]_vars

C12_Witness ==
  /\ SubmitEnabled
  /\ githubUsername # <<>>
  /\ Len(wallets) = 2
  /\ wallets[1].address = <<"a", ".", "e", "t", "h">> /\ wallets[1].isValid
  /\ wallets[2].address = <<"x">> /\ ~wallets[2].isValid
  /\ post = <<>>
  /\ intervals = {}

(***************************************************************************)
(* The webhook route                                                       *)
(***************************************************************************)
\* nothing but the webhook route is in use
RouteOnly ==
  /\ Constructed
  /\ NoFetch
  /\ wallets = InitialWallets
  /\ timeZone = Undefined
  /\ currentYear = 0
  /\ userData = Null
  /\ selectedGithubYear = 0
  /\ selectedOnchainYear = 0
  /\ githubActivity = Undefined
  /\ onchainActivity = Undefined
  /\ onchainData = Undefined

\* a request has arrived and the route has not run yet
InitWebhook ==
  /\ RouteOnly
  /\ webhook \in [request : WebhookBodies, outcome : {Undefined}]

\* the route runs to its response
receiveWebhook ==
  /\ webhook.outcome = Undefined
  /\ webhook' = [webhook EXCEPT !.outcome = POST(webhook.request)]
  /\ UNCHANGED <<profileVars, post, hist>>
  /\ UNCHANGED formVars
  /\ UNCHANGED reactVars
  /\ UNCHANGED browserVars

WebhookSpec == InitWebhook /\ [][receiveWebhook]_vars

Answered == webhook.outcome # Undefined

\* a JSON body that lacks, or has a falsy value for, one of the three fields
MissingTopField(body) ==
  /\ body # InvalidJson
  /\ \E name \in {"header", "payload", "signature"} : ~Truthy(Field(body, name))

NothingProcessed == ~webhook.outcome.decoded /\ webhook.outcome.branch = "none"

\* C13 as stated: every JSON body without a truthy header, payload or
\* signature is answered 400, with no decoding and no event processing.
C13_MissingFieldIs400 ==
  (Answered /\ MissingTopField(webhook.request)) =>
    /\ webhook.outcome.response.status = 400
    /\ NothingProcessed

\* C13 amended: every JSON body other than null without a truthy header,
\* payload or signature is answered 400, and the JSON body null is
\* answered 500; neither decodes the payload nor processes an event.
C13_NonNullMissingFieldIs400 ==
  (Answered /\ MissingTopField(webhook.request)) =>
    /\ webhook.outcome.response.status =
         (IF webhook.request = Null THEN 500 ELSE 400)
    /\ NothingProcessed

C13_Witness ==
  /\ Answered
  /\ webhook.request.kind = "object"
  /\ Truthy(webhook.request.header)
  /\ Truthy(webhook.request.payload)
  /\ webhook.request.signature = Undefined
  /\ webhook.outcome.response = InvalidPayload

\* decoding or processing of the payload of a complete body throws
Throws(body) ==
  \/ body.payload.kind # "string"
  \/ ~body.payload.decoded.json
  \/ body.payload.decoded.value = Null

CarriesAllFields(body) ==
  body # InvalidJson /\ ~MissingTopField(body)

\* C14: a body with all three fields is answered 500 if decoding or
\* processing throws, and otherwise 200 {success: true} whatever the event,
\* with or without notificationDetails.
C14_CompleteBodyIs200Or500 ==
  (Answered /\ CarriesAllFields(webhook.request)) =>
    webhook.outcome.response =
      (IF Throws(webhook.request) THEN InternalError ELSE Success)

C14_Witness ==
  /\ Answered
  /\ CarriesAllFields(webhook.request)
  /\ ~Throws(webhook.request)
  /\ webhook.request.payload.decoded.value.kind = "object"
  /\ webhook.request.payload.decoded.value.event = EventName("frame_added")
  /\ webhook.request.payload.decoded.value.notificationDetails = Undefined
  /\ webhook.outcome.branch = "frame_added"
  /\ webhook.outcome.response = Success

(***************************************************************************)
(* Dates (the JavaScript Date of the browser)                              *)
(*                                                                         *)
(* A calendar day is its number of days since 2022-01-01, an instant its   *)
(* number of hours since 2022-01-01T00:00Z.  A date string is the record   *)
(* of its date portion (a day) and its time of day in UTC; a date-only     *)
(* string has time 0, which is how new Date() reads it.  A time zone is   *)
(* its standard offset from UTC in hours and its periods of daylight time, *)
(* each from the local midnight that begins day `from` (the clock jumps    *)
(* from 00:00 to 01:00) to the local midnight that begins day `to` (the    *)
(* clock falls back to 23:00).                                             *)
(***************************************************************************)
Years == 2022..2026

IsLeapYear(y) == (y % 4 = 0 /\ y % 100 # 0) \/ y % 400 = 0

DaysInYear(y) == IF IsLeapYear(y) THEN 366 ELSE 365

\* the number of days of year y before its month m
DaysBeforeMonth(y, m) ==
  <<0, 31, 59, 90, 120, 151, 181, 212, 243, 273, 304, 334>>[m]
  + (IF IsLeapYear(y) /\ m > 2 THEN 1 ELSE 0)

\* the day number of January 1 of year y
RECURSIVE YearStart(_)
YearStart(y) == IF y <= 2022 THEN 0 ELSE YearStart(y - 1) + DaysInYear(y - 1)

DayNumber(y, m, d) == YearStart(y) + DaysBeforeMonth(y, m) + d - 1

YearOfDay(day) == CHOOSE y \in Years : YearStart(y) <= day /\ day < YearStart(y + 1)

MonthOfDay(day) ==
  LET y == YearOfDay(day)
      dayOfYear == day - YearStart(y)
  IN CHOOSE m \in 1..12 :
       /\ DaysBeforeMonth(y, m) <= dayOfYear
       /\ m < 12 => dayOfYear < DaysBeforeMonth(y, m + 1)

DateString(day, hour) == [date |-> day, time |-> hour]

\* new Date(dateString): the instant the string names
NewDate(str) == str.date * 24 + str.time

\* dateString.split('T')[0]
DatePortion(str) == str.date

\* the offset from UTC in force at an instant
OffsetAt(zone, instant) ==
  IF \E p \in zone.daylight :
       /\ p.from * 24 - zone.offset <= instant
       /\ instant < p.to * 24 - zone.offset - 1
  THEN zone.offset + 1
  ELSE zone.offset

\* the local time of an instant, in hours, and its calendar day and hour
LocalTime(zone, instant) == instant + OffsetAt(zone, instant)
LocalDay(zone, instant) == LocalTime(zone, instant) \div 24
LocalHour(zone, instant) == LocalTime(zone, instant) % 24

\* the instant of a local day and hour: a local time the clock skips is
\* read with the offset before the transition, a local time the clock
\* repeats is the earlier instant
FromLocal(zone, day, hour) ==
  LET local == day * 24 + hour
      instants == {i \in {local - zone.offset - 1, local - zone.offset} :
                     LocalTime(zone, i) = local}
  IN IF instants = {} THEN local - zone.offset
     ELSE CHOOSE i \in instants : \A j \in instants : i <= j

\* date.getFullYear(): the year of the local calendar day
getFullYear(zone, instant) == YearOfDay(LocalDay(zone, instant))

\* new Date(year, month, day): local midnight of that day
LocalMidnight(zone, day) == FromLocal(zone, day, 0)

\* date.setDate(date.getDate() + 1): the next local day at the same local hour
NextDay(zone, instant) ==
  FromLocal(zone, LocalDay(zone, instant) + 1, LocalHour(zone, instant))

\* date.toISOString().split('T')[0]: the UTC calendar day of an instant
IsoDate(instant) == instant \div 24

UTC == [name |-> "UTC", offset |-> 0, daylight |-> {}]
Bogota == [name |-> "America/Bogota", offset |-> -5, daylight |-> {}]
Karachi == [name |-> "Asia/Karachi", offset |-> 5, daylight |-> {}]
Santiago ==
  [name |-> "America/Santiago", offset |-> -4,
   daylight |->
     { [from |-> DayNumber(2022, 9, 11), to |-> DayNumber(2023, 4, 2)],
       [from |-> DayNumber(2023, 9, 3), to |-> DayNumber(2024, 4, 7)],
       [from |-> DayNumber(2024, 9, 8), to |-> DayNumber(2025, 4, 6)],
       [from |-> DayNumber(2025, 9, 7), to |-> DayNumber(2026, 4, 5)] }]

TimeZones == {UTC, Bogota, Karachi, Santiago}

\* [...new Set(years)].sort(): the default sort compares the decimal
\* strings, which orders four-digit years as numbers
RECURSIVE SortedYears(_)
SortedYears(S) ==
  IF S = {} THEN <<>>
  ELSE LET least == CHOOSE y \in S : \A z \in S : y <= z
       IN <<least>> \o SortedYears(S \ {least})

\* at most n iterations of while (currentDate <= endDate) { ...;
\* currentDate.setDate(currentDate.getDate() + 1) }: the instants visited
RECURSIVE WalkFrom(_, _, _, _)
WalkFrom(zone, currentDate, endDate, n) ==
  IF n = 0 \/ currentDate > endDate THEN <<>>
  ELSE <<currentDate>> \o WalkFrom(zone, NextDay(zone, currentDate), endDate, n - 1)

\* the loop continued after `walked`, a whole number of months of
\* iterations, for at most n more stretches of 31 iterations
RECURSIVE WalkOn(_, _, _, _)
WalkOn(zone, walked, endDate, n) ==
  IF n = 0 \/ walked = <<>> \/ Len(walked) % 31 # 0 THEN walked
  ELSE WalkOn(zone,
              walked \o WalkFrom(zone, NextDay(zone, walked[Len(walked)]), endDate, 31),
              endDate, n - 1)

\* the instants the while loop visits, from local midnight of January 1 to
\* local midnight of December 31, evaluated in twelve stretches
DaysWalked(zone, year) ==
  LET startDate == LocalMidnight(zone, DayNumber(year, 1, 1))
      endDate == LocalMidnight(zone, DayNumber(year, 12, 31))
  IN WalkOn(zone, WalkFrom(zone, startDate, endDate, 31), endDate, 11)

\* Array.from(months): the month of each day walked, in order of first visit
MonthsWalked(zone, walked) ==
  SortedYears({MonthOfDay(LocalDay(zone, walked[k])) : k \in DOMAIN walked})

(***************************************************************************)
(* The profile view: getGithubActivityData                                 *)
(***************************************************************************)
\* a JavaScript object as the sequence of its entries, in key order
Object(entries) == [kind |-> "object", entries |-> entries]

\* array.flatMap(f), with f already applied to each element
RECURSIVE Flat(_)
Flat(arrays) == IF arrays = <<>> THEN <<>> ELSE Head(arrays) \o Flat(Tail(arrays))

\* array.filter(keep), kept being the indices of the elements keep accepts
Filter(array, kept) ==
  [k \in 1..Cardinality(kept) |->
     array[CHOOSE i \in kept : Cardinality({j \in kept : j <= i}) = k]]

\* array.find(test), hits being the indices of the elements test accepts:
\* the first match, Undefined if none
Find(array, hits) ==
  IF hits = {} THEN Undefined
  ELSE array[CHOOSE i \in hits : \A j \in hits : i <= j]

\* a default that takes the first of the sorted years
YearToUse_Earliest(selectedYear, years, thisYear) ==
  IF selectedYear # 0 THEN selectedYear
  ELSE IF Len(years) > 0 THEN years[1] ELSE thisYear

\* the year the transform works on: selectedYear || (latest year || this year)
YearToUse(selectedYear, years, thisYear) ==
  IF selectedYear # 0 THEN selectedYear
  ELSE IF Len(years) > 0 THEN years[Len(years)] ELSE thisYear

\* the object the transform returns; selectedYearContributions is a sequence,
\* empty where the returned object has no such member
ActivityResult(byDay, months, total, ofYear, years) ==
  [contributionsByDay |-> byDay, contributionMonths |-> months,
   totalContributions |-> total, selectedYearContributions |-> ofYear,
   availableYears |-> years]

getGithubActivityData(data, selectedYear, zone, thisYear) ==
  IF \/ data = Null
     \/ data.contributionData = Undefined
     \/ data.contributionData.contributionCalendar = Undefined
  THEN ActivityResult(<<>>, <<>>, 0, <<>>, <<>>)
  ELSE
    LET calendar == data.contributionData.contributionCalendar
        days == Flat([w \in DOMAIN calendar.weeks |-> calendar.weeks[w].contributionDays])
        years == SortedYears({getFullYear(zone, NewDate(days[i].date)) : i \in DOMAIN days})
        yearToUse == YearToUse(selectedYear, years, thisYear)
        InYear(day) == getFullYear(zone, NewDate(day.date)) = yearToUse
        yearContributions == Filter(days, {i \in DOMAIN days : InYear(days[i])})
    IN
    IF Len(yearContributions) = 0
    THEN ActivityResult(<<>>, <<>>, 0, <<>>, years)
    ELSE
      LET walked == DaysWalked(zone, yearToUse)
          Count(instant) ==
            LET OnDate(day) == DatePortion(day.date) = IsoDate(instant)
                contribution ==
                  Find(yearContributions,
                       {i \in DOMAIN yearContributions : OnDate(yearContributions[i])})
            IN IF contribution = Undefined THEN 0 ELSE contribution.contributionCount
      IN ActivityResult(
           [k \in DOMAIN walked |-> Count(walked[k])],
           MonthsWalked(zone, walked),
           data.contributionData.totalContributions,
           <<SumSeq([i \in DOMAIN yearContributions |->
                       yearContributions[i].contributionCount])>>,
           years)

(***************************************************************************)
(* The profile view: getOnchainActivityData                                *)
(***************************************************************************)
\* Object.values(object)
Values(object) == [i \in DOMAIN object.entries |-> object.entries[i].value]

DayResult(byDay, months, total, years) ==
  [transactionsByDay |-> byDay, activityMonths |-> months,
   totalTransactions |-> total, availableYears |-> years]

getOnchainActivityData(data, selectedYear, zone, thisYear) ==
  IF \/ data = Null
     \/ data.onchainHistory = Undefined
     \/ Len(data.onchainHistory.entries) = 0
  THEN DayResult(<<>>, <<>>, 0, <<>>)
  ELSE
    LET allTransactions == Flat(Values(data.onchainHistory))
        years == SortedYears({getFullYear(zone, NewDate(allTransactions[i].date)) :
                                i \in DOMAIN allTransactions})
        yearToUse == YearToUse(selectedYear, years, thisYear)
        InYear(tx) == getFullYear(zone, NewDate(tx.date)) = yearToUse
        yearTransactions ==
          Filter(allTransactions,
                 {i \in DOMAIN allTransactions : InYear(allTransactions[i])})
    IN
    IF Len(yearTransactions) = 0
    THEN DayResult(<<>>, <<>>, 0, years)
    ELSE
      LET walked == DaysWalked(zone, yearToUse)
          Count(instant) ==
            LET OnDate(tx) == DatePortion(tx.date) = IsoDate(instant)
            IN Len(Filter(yearTransactions,
                          {i \in DOMAIN yearTransactions : OnDate(yearTransactions[i])}))
      IN DayResult([k \in DOMAIN walked |-> Count(walked[k])],
                   MonthsWalked(zone, walked),
                   Len(yearTransactions),
                   years)

(***************************************************************************)
(* The profile view: processOnchainData.  The tvl and firstActivity        *)
(* members of a network are left out: no other member is computed from     *)
(* them.                                                                   *)
(***************************************************************************)
\* string.includes(part), string.startsWith(prefix)
Includes(str, part) ==
  \E i \in 1..(Len(str) - Len(part) + 1) : SubSeq(str, i, i + Len(part) - 1) = part

StartsWith(str, prefix) ==
  Len(prefix) <= Len(str) /\ SubSeq(str, 1, Len(prefix)) = prefix

Mainnet == <<"m", "a", "i", "n", "n", "e", "t">>
Eth == <<"e", "t", "h">>

\* object[key] || []
ValueOr(object, key) ==
  IF object = Undefined THEN <<>>
  ELSE LET hits == {i \in DOMAIN object.entries : object.entries[i].key = key}
       IN IF hits = {} THEN <<>>
          ELSE object.entries[CHOOSE i \in hits : TRUE].value

\* uniqueUsers !== undefined && uniqueUsers !== null ? Number(uniqueUsers) : 0
UserCount(contract) ==
  IF contract.uniqueUsers.kind \in {"undefined", "null"} THEN 0
  ELSE contract.uniqueUsers.value

Min(a, b) == IF a <= b THEN a ELSE b

\* Math.min(Math.round(transactions * 2), 100)
Score_Uncapped(transactions) == transactions * 2

Score(transactions) == Min(transactions * 2, 100)

Bucket(transactions, contracts, uniqueUsers) ==
  [transactions |-> transactions, contracts |-> contracts, uniqueUsers |-> uniqueUsers]

EmptyBucket == Bucket(0, 0, 0)

AddTo(bucket, transactions, contracts, uniqueUsers) ==
  Bucket(bucket.transactions + transactions, bucket.contracts + contracts,
         bucket.uniqueUsers + uniqueUsers)

NetworkName_AlwaysBase(chainName) == "Base"

NetworkName(chainName) == IF StartsWith(chainName, Eth) THEN "Ethereum" ELSE "Base"

\* the body of chainNames.forEach: chainGroups is the sequence of the
\* networks created so far, in order of creation
MergeChain(chainGroups, data, chainName) ==
  LET txs == ValueOr(data.onchainHistory, chainName) IN
  IF Len(txs) = 0 THEN chainGroups
  ELSE
    LET isMainnet == Includes(chainName, Mainnet)
        networkName == NetworkName(chainName)
        txCount == Len(txs)
        contractsData == ValueOr(data.contractsDeployed, chainName)
        contractCount == Len(contractsData)
        uniqueUsers == SumSeq([i \in DOMAIN contractsData |-> UserCount(contractsData[i])])
        existing == {i \in DOMAIN chainGroups : chainGroups[i].name = networkName}
    IN
    IF existing # {}
    THEN [i \in DOMAIN chainGroups |->
            IF i \notin existing THEN chainGroups[i]
            ELSE LET group == chainGroups[i]
                     mainnet == IF isMainnet
                                THEN AddTo(group.mainnet, txCount, contractCount, uniqueUsers)
                                ELSE group.mainnet
                     testnet == IF isMainnet
                                THEN group.testnet
                                ELSE AddTo(group.testnet, txCount, contractCount, uniqueUsers)
                 IN [name |-> group.name, mainnet |-> mainnet, testnet |-> testnet,
                     score |-> Score(mainnet.transactions + testnet.transactions)]]
    ELSE Append(chainGroups,
           [name |-> networkName,
            mainnet |-> IF isMainnet THEN Bucket(txCount, contractCount, uniqueUsers)
                        ELSE EmptyBucket,
            testnet |-> IF isMainnet THEN EmptyBucket
                        ELSE Bucket(txCount, contractCount, uniqueUsers),
            score |-> Score(txCount)])

\* chainGroups after the first n chain names of onchainHistory
RECURSIVE ChainGroupsAfter(_, _)
ChainGroupsAfter(data, n) ==
  IF n = 0 THEN <<>>
  ELSE MergeChain(ChainGroupsAfter(data, n - 1), data, data.onchainHistory.entries[n].key)

\* a member of the chains array
ChainData(group) ==
  [name |-> group.name,
   transactions |-> group.mainnet.transactions + group.testnet.transactions,
   contracts |-> group.mainnet.contracts + group.testnet.contracts,
   score |-> group.score,
   uniqueUsers |-> group.mainnet.uniqueUsers + group.testnet.uniqueUsers,
   mainnet |-> group.mainnet,
   testnet |-> group.testnet]

\* a reduce with >= in place of >: the last of the chains with most transactions
TopOf_LastWins(max, chains) ==
  chains[CHOOSE i \in DOMAIN chains :
           /\ \A j \in DOMAIN chains : chains[j].transactions <= chains[i].transactions
           /\ \A j \in DOMAIN chains :
                chains[j].transactions = chains[i].transactions => j <= i]

\* chains.reduce((max, chain) => chain.transactions > max.transactions ? chain : max)
RECURSIVE TopOf(_, _)
TopOf(max, chains) ==
  IF chains = <<>> THEN max
  ELSE TopOf(IF Head(chains).transactions > max.transactions THEN Head(chains) ELSE max,
             Tail(chains))

SummaryResult(total, chains, top, users) ==
  [totalTransactions |-> total, chains |-> chains, chainCount |-> Len(chains),
   topChain |-> top, uniqueUsers |-> users]

\* the sum over every contract of every chain key of contractsDeployed
TotalUniqueUsers(data) ==
  IF data.contractsDeployed = Undefined THEN 0
  ELSE LET contracts == Flat(Values(data.contractsDeployed))
       IN SumSeq([i \in DOMAIN contracts |-> UserCount(contracts[i])])

processOnchainData_CountsBuckets(data) ==
  IF \/ data = Null
     \/ data.onchainHistory = Undefined
     \/ Len(data.onchainHistory.entries) = 0
  THEN SummaryResult(0, <<>>, "", 0)
  ELSE
    LET chainGroups == ChainGroupsAfter(data, Len(data.onchainHistory.entries))
        chains == [i \in DOMAIN chainGroups |-> ChainData(chainGroups[i])]
    IN SummaryResult(Len(Flat(Values(data.onchainHistory))),
                     chains,
                     IF Len(chains) > 0 THEN TopOf(chains[1], chains).name ELSE "",
                     SumSeq([i \in DOMAIN chains |-> chains[i].uniqueUsers]))

\* what a caller sees when a transform reads a member of undefined
TypeError == [kind |-> "TypeError"]

\* the transform reading userData.contractsDeployed[chainName].length with
\* neither the optional chaining nor the `|| []` of line 458
processOnchainData_Unguarded(data) ==
  IF \/ data = Null
     \/ data.onchainHistory = Undefined
     \/ Len(data.onchainHistory.entries) = 0
  THEN SummaryResult(0, <<>>, "", 0)
  ELSE
    LET history == data.onchainHistory.entries
        Deployed(key) ==
          /\ data.contractsDeployed # Undefined
          /\ \E i \in DOMAIN data.contractsDeployed.entries :
               data.contractsDeployed.entries[i].key = key
    IN
    IF \E i \in DOMAIN history : Len(history[i].value) > 0 /\ ~Deployed(history[i].key)
    THEN TypeError
    ELSE
      LET chainGroups == ChainGroupsAfter(data, Len(history))
          chains == [i \in DOMAIN chainGroups |-> ChainData(chainGroups[i])]
      IN SummaryResult(Len(Flat(Values(data.onchainHistory))),
                       chains,
                       IF Len(chains) > 0 THEN TopOf(chains[1], chains).name ELSE "",
                       TotalUniqueUsers(data))

processOnchainData(data) ==
  IF \/ data = Null
     \/ data.onchainHistory = Undefined
     \/ Len(data.onchainHistory.entries) = 0
  THEN SummaryResult(0, <<>>, "", 0)
  ELSE
    LET chainGroups == ChainGroupsAfter(data, Len(data.onchainHistory.entries))
        chains == [i \in DOMAIN chainGroups |-> ChainData(chainGroups[i])]
    IN SummaryResult(Len(Flat(Values(data.onchainHistory))),
                     chains,
                     IF Len(chains) > 0 THEN TopOf(chains[1], chains).name ELSE "",
                     TotalUniqueUsers(data))

(***************************************************************************)
(* The transforms applied to profile snapshots                             *)
(***************************************************************************)
\* the sequences over S of length at most n
SeqsUpTo(S, n) == UNION {[1..k -> S] : k \in 0..n}

Snapshot(contributionData, onchainHistory, contractsDeployed) ==
  [contributionData |-> contributionData, onchainHistory |-> onchainHistory,
   contractsDeployed |-> contractsDeployed]

ContributionDay(y, m, d, count) ==
  [date |-> DateString(DayNumber(y, m, d), 0), contributionCount |-> count]

\* days of a contribution calendar: date-only strings
CalendarDays ==
  { ContributionDay(2023, 12, 31, 2), ContributionDay(2024, 1, 1, 3),
    ContributionDay(2024, 2, 29, 5), ContributionDay(2024, 12, 31, 7),
    ContributionDay(2025, 1, 1, 1) }

\* one week per day
Weeks(days) == [i \in DOMAIN days |-> [contributionDays |-> <<days[i]>>]]

ContributionData(days) ==
  [totalContributions |-> 40, contributionCalendar |-> [weeks |-> Weeks(days)]]

CalendarSnapshots ==
  { Null,
    Snapshot(Undefined, Undefined, Undefined),
    Snapshot([totalContributions |-> 40, contributionCalendar |-> Undefined],
             Undefined, Undefined) }
  \cup { Snapshot(ContributionData(days), Undefined, Undefined) :
           days \in SeqsUpTo(CalendarDays, MaxEntries) }

Transaction(y, m, d, hour) == [date |-> DateString(DayNumber(y, m, d), hour)]

\* transactions: date-time strings in UTC
DatedTransactions ==
  { Transaction(2023, 12, 31, 23), Transaction(2024, 1, 1, 2),
    Transaction(2024, 2, 29, 12), Transaction(2024, 12, 31, 21),
    Transaction(2025, 1, 1, 0) }

EthMainnet == <<"e", "t", "h", "-", "m", "a", "i", "n", "n", "e", "t">>
EthTestnet == <<"e", "t", "h", "-", "t", "e", "s", "t", "n", "e", "t">>
BaseMainnet == <<"b", "a", "s", "e", "-", "m", "a", "i", "n", "n", "e", "t">>
BaseSepolia == <<"b", "a", "s", "e", "-", "s", "e", "p", "o", "l", "i", "a">>

Entry(key, value) == [key |-> key, value |-> value]

\* the first transaction on one chain, the others on another
History(txs) ==
  Object(<<Entry(EthMainnet, IF txs = <<>> THEN <<>> ELSE <<Head(txs)>>),
           Entry(BaseSepolia, IF txs = <<>> THEN <<>> ELSE Tail(txs))>>)

HistorySnapshots ==
  { Snapshot(Undefined, History(txs), Undefined) :
      txs \in SeqsUpTo(DatedTransactions, MaxEntries) }

ChainKeys == {EthMainnet, EthTestnet, BaseMainnet}

TxCounts == {0, 3, 5, 26}

TxList(n) == [i \in 1..n |-> Transaction(2024, 6, 15, 12)]

\* onchainHistory objects: distinct keys in any order, each with a list
Histories ==
  UNION { { Object([i \in DOMAIN keys |-> Entry(keys[i], TxList(counts[i]))]) :
              counts \in [DOMAIN keys -> TxCounts] } :
          keys \in { ks \in SeqsUpTo(ChainKeys, MaxChains) :
                       \A i, j \in DOMAIN ks : i # j => ks[i] # ks[j] } }

Contract(uniqueUsers) == [tvl |-> "0", uniqueUsers |-> uniqueUsers]

ContractSets ==
  { Undefined,
    Object(<<>>),
    Object(<<Entry(EthMainnet, <<Contract(Number(10)), Contract(Null), Contract(Number(5))>>)>>),
    Object(<<Entry(EthMainnet, <<Contract(Number(10)), Contract(Null), Contract(Number(5))>>),
             Entry(EthTestnet, <<Contract(Number(4))>>),
             Entry(BaseSepolia, <<Contract(Undefined), Contract(Number(7))>>)>>) }

CountSnapshots ==
  { Snapshot(Undefined, history, contracts) :
      history \in Histories, contracts \in ContractSets }

SelectableYears == {0, 2023, 2024, 2025}

(***************************************************************************)
(* The profile view: the snapshot fetch effect                             *)
(***************************************************************************)
MaxFetches == 3

\* the username the mini-app page starts with, and one it replaces it by
DefaultUsername ==
  <<"n", "i", "s", "a", "r", "g", "t", "h", "a", "k", "k", "a", "r">>
OtherUsername == <<"u">>

NoUsername == <<>>

ProfileUsernames == {NoUsername, DefaultUsername, OtherUsername}

\* response.data.data of GET /fbi/status/<username> for a finished analysis
SnapshotOf(name) ==
  [userData |-> [login |-> name], contributionData |-> Undefined,
   onchainHistory |-> Undefined, contractsDeployed |-> Undefined]

\* response.data: the snapshot, an analysis still in progress, no data
ResponseBodies(name) ==
  { [data |-> SnapshotOf(name)],
    [data |-> [status |-> "PROCESSING", userData |-> Undefined]],
    [data |-> Undefined] }

\* response.data?.data?.userData is truthy
HasUserData(body) == body.data # Undefined /\ body.data.userData # Undefined

MissingData == "API response missing expected data structure"
FailedToLoad == "Failed to load user data"

\* what api.get rejects with: an Error with a message, or another value
Rejections == { [kind |-> "Error", message |-> "Network Error"],
                [kind |-> "Error", message |-> "Request failed with status code 404"],
                [kind |-> "other"] }

\* err instanceof Error ? err.message : "Failed to load user data"
MessageOf(err) == IF err.kind = "Error" THEN err.message ELSE FailedToLoad

\* the state the snapshot fetch leaves alone
besidesFetch == <<webhook, timeZone, currentYear, selectedGithubYear,
                  selectedOnchainYear, githubActivity, onchainActivity,
                  onchainData, post, hist, formVars, reactVars, browserVars>>

\* what the component renders
View ==
  IF loading THEN "loading"
  ELSE IF error # "" \/ userData = Null THEN "error"
  ELSE "profile"

\* the effect of [username]: it runs after the first render and after a
\* render with another username, and fetches if the username is not empty
fetchEffect ==
  /\ fetchedFor # <<usernameProp>>
  /\ fetchedFor' = <<usernameProp>>
  /\ IF usernameProp # NoUsername
     THEN /\ loading' = TRUE
          /\ fetches' = fetches \cup {[id |-> issued + 1, username |-> usernameProp]}
          /\ issued' = issued + 1
     ELSE UNCHANGED <<loading, fetches, issued>>
  /\ UNCHANGED <<usernameProp, error, userData>>
  /\ UNCHANGED besidesFetch

\* the parent renders the view with another username
setUsername(name) ==
  /\ issued < MaxFetches
  /\ name # usernameProp
  /\ usernameProp' = name
  /\ UNCHANGED <<fetchedFor, loading, error, fetches, issued, userData>>
  /\ UNCHANGED besidesFetch

\* a request resolved with a body that has userData
fetchResolved(request) ==
  /\ request \in fetches
  /\ fetches' = fetches \ {request}
  /\ userData' = SnapshotOf(request.username)
  /\ error' = ""
  /\ loading' = FALSE
  /\ UNCHANGED <<usernameProp, fetchedFor, issued>>
  /\ UNCHANGED besidesFetch

\* a request resolved with a body that lacks userData: the try block throws
fetchMissesData(request, body) ==
  /\ request \in fetches
  /\ ~HasUserData(body)
  /\ fetches' = fetches \ {request}
  /\ error' = MissingData
  /\ loading' = FALSE
  /\ UNCHANGED <<usernameProp, fetchedFor, issued, userData>>
  /\ UNCHANGED besidesFetch

\* a rejected request that is issued again
fetchRejected_Retries(request, err) ==
  /\ request \in fetches
  /\ issued < MaxFetches
  /\ fetches' = (fetches \ {request})
                   \cup {[id |-> issued + 1, username |-> request.username]}
  /\ issued' = issued + 1
  /\ error' = MessageOf(err)
  /\ loading' = FALSE
  /\ UNCHANGED <<usernameProp, fetchedFor, userData>>
  /\ UNCHANGED besidesFetch

\* a request rejected
fetchRejected(request, err) ==
  /\ request \in fetches
  /\ fetches' = fetches \ {request}
  /\ error' = MessageOf(err)
  /\ loading' = FALSE
  /\ UNCHANGED <<usernameProp, fetchedFor, issued, userData>>
  /\ UNCHANGED besidesFetch

\* nothing but the snapshot fetch is in use
FetchOnly ==
  /\ Constructed
  /\ wallets = InitialWallets
  /\ webhook = Undefined
  /\ timeZone = Undefined
  /\ currentYear = 0
  /\ selectedGithubYear = 0
  /\ selectedOnchainYear = 0
  /\ githubActivity = Undefined
  /\ onchainActivity = Undefined
  /\ onchainData = Undefined

\* the view after its first render, its effect not run yet
InitFetch ==
  /\ FetchOnly
  /\ usernameProp \in ProfileUsernames
  /\ fetchedFor = <<>>
  /\ userData = Null
  /\ loading = TRUE
  /\ error = ""
  /\ fetches = {}
  /\ issued = 0

NextFetch ==
  \/ fetchEffect
  \/ \E name \in ProfileUsernames : setUsername(name)
  \/ \E request \in fetches : fetchResolved(request)
  \/ \E request \in fetches :
       \E body \in ResponseBodies(request.username) : fetchMissesData(request, body)
  \/ \E request \in fetches, err \in Rejections : fetchRejected(request, err)

FetchSpec == InitFetch /\ [][NextFetch]_vars

\* the snapshot of the username shown has been fetched and nothing else is
\* in use
TransformsOnly ==
  /\ Constructed
  /\ usernameProp = DefaultUsername
  /\ fetchedFor = <<DefaultUsername>>
  /\ loading = FALSE
  /\ error = ""
  /\ fetches = {}
  /\ issued = 1
  /\ wallets = InitialWallets
  /\ webhook = Undefined
  /\ currentYear = 2025
  /\ githubActivity = Undefined
  /\ onchainActivity = Undefined
  /\ onchainData = Undefined

\* a snapshot, the selected years and the browser's time zone
InitProfile ==
  /\ TransformsOnly
  /\ \/ /\ userData \in CalendarSnapshots
        /\ timeZone \in TimeZones
        /\ selectedGithubYear \in SelectableYears
        /\ selectedOnchainYear = 0
     \/ /\ userData \in HistorySnapshots
        /\ timeZone \in TimeZones
        /\ selectedGithubYear = 0
        /\ selectedOnchainYear \in SelectableYears
     \/ /\ userData \in CountSnapshots
        /\ timeZone = UTC
        /\ selectedGithubYear = 0
        /\ selectedOnchainYear = 2023

\* the three transforms run on the snapshot held
transform ==
  /\ githubActivity = Undefined
  /\ githubActivity' =
       getGithubActivityData(userData, selectedGithubYear, timeZone, currentYear)
  /\ onchainActivity' =
       getOnchainActivityData(userData, selectedOnchainYear, timeZone, currentYear)
  /\ onchainData' = processOnchainData(userData)
  /\ UNCHANGED <<webhook, timeZone, currentYear, userData, selectedGithubYear,
                 selectedOnchainYear, post, hist>>
  /\ UNCHANGED fetchVars
  /\ UNCHANGED formVars
  /\ UNCHANGED reactVars
  /\ UNCHANGED browserVars

ProfileSpec == InitProfile /\ [][transform]_vars

Transformed == githubActivity # Undefined

(***************************************************************************)
(* Calendar transform and day series: properties                           *)
(***************************************************************************)
HasCalendar ==
  /\ userData # Null
  /\ userData.contributionData # Undefined
  /\ userData.contributionData.contributionCalendar # Undefined

\* the day entries of the whole calendar
CalendarEntries ==
  LET weeks == userData.contributionData.contributionCalendar.weeks
  IN Flat([w \in DOMAIN weeks |-> weeks[w].contributionDays])

HasHistory ==
  /\ userData # Null
  /\ userData.onchainHistory # Undefined
  /\ Len(userData.onchainHistory.entries) > 0

\* the transactions of every chain
HistoryEntries == Flat(Values(userData.onchainHistory))

\* the year written in a date string
DateYear(str) == YearOfDay(DatePortion(str))

Elements(seq) == {seq[i] : i \in DOMAIN seq}

\* C15: with a year selected in which the calendar has no day entry, the
\* daily series and the month list are empty and availableYears lists the
\* years of the entries of the whole calendar.
C15_EmptyYearHasEmptySeries ==
  (/\ Transformed
   /\ HasCalendar
   /\ selectedGithubYear # 0
   /\ \A i \in DOMAIN CalendarEntries :
        DateYear(CalendarEntries[i].date) # selectedGithubYear)
  => /\ githubActivity.contributionsByDay = <<>>
     /\ githubActivity.contributionMonths = <<>>
     /\ Elements(githubActivity.availableYears) =
          {DateYear(CalendarEntries[i].date) : i \in DOMAIN CalendarEntries}

\* the number of days of a year between 1901 and 2099
CalendarDaysOf(year) == IF year % 4 = 0 THEN 366 ELSE 365

\* an entry is dated in the year, by its date string and in local time
DatedIn(entry, year) ==
  /\ DateYear(entry.date) = year
  /\ getFullYear(timeZone, NewDate(entry.date)) = year

\* C16: when the target year has an entry, the daily series has one element
\* per calendar day of that year, 366 in a leap year and 365 otherwise, in
\* the calendar transform and in the on-chain day series.
C16_OneElementPerDay ==
  /\ (Transformed /\ HasCalendar) =>
       LET target == YearToUse(selectedGithubYear, githubActivity.availableYears,
                               currentYear)
       IN (\E i \in DOMAIN CalendarEntries : DatedIn(CalendarEntries[i], target))
          => Len(githubActivity.contributionsByDay) = CalendarDaysOf(target)
  /\ (Transformed /\ HasHistory) =>
       LET target == YearToUse(selectedOnchainYear, onchainActivity.availableYears,
                               currentYear)
       IN (\E i \in DOMAIN HistoryEntries : DatedIn(HistoryEntries[i], target))
          => Len(onchainActivity.transactionsByDay) = CalendarDaysOf(target)

\* the sum of the counts of the entries the transform puts in the year
YearSubtotal(year) ==
  LET InYear(day) == getFullYear(timeZone, NewDate(day.date)) = year
      ofYear == Filter(CalendarEntries,
                       {i \in DOMAIN CalendarEntries : InYear(CalendarEntries[i])})
  IN SumSeq([i \in DOMAIN ofYear |-> ofYear[i].contributionCount])

\* C17: for every selected year the result carries the grand total of the
\* snapshot and the subtotal of the selected year.
C17_GrandTotalAndSubtotal ==
  (Transformed /\ HasCalendar) =>
    LET target == YearToUse(selectedGithubYear, githubActivity.availableYears,
                            currentYear)
    IN /\ githubActivity.totalContributions =
            userData.contributionData.totalContributions
       /\ githubActivity.selectedYearContributions = <<YearSubtotal(target)>>

(***************************************************************************)
(* On-chain summary: properties                                            *)
(***************************************************************************)
\* the chains of onchainHistory and their contract lists
HistoryKeys == userData.onchainHistory.entries

ContractsOf(key) ==
  IF userData.contractsDeployed = Undefined THEN <<>>
  ELSE LET deployed == userData.contractsDeployed.entries
           at == {i \in DOMAIN deployed : deployed[i].key = key}
       IN IF at = {} THEN <<>> ELSE deployed[CHOOSE i \in at : TRUE].value

\* the chain keys with transactions that belong to a bucket of a network
KeysOf(network, isMainnet) ==
  {i \in DOMAIN HistoryKeys :
     /\ Len(HistoryKeys[i].value) > 0
     /\ (SubSeq(HistoryKeys[i].key, 1, 3) = <<"e", "t", "h">>) <=> (network = "Ethereum")
     /\ Includes(HistoryKeys[i].key, Mainnet) <=> isMainnet}

TransactionsOf(network, isMainnet) ==
  SumSeq([i \in DOMAIN HistoryKeys |->
            IF i \in KeysOf(network, isMainnet) THEN Len(HistoryKeys[i].value) ELSE 0])

DeployedOf(network, isMainnet) ==
  SumSeq([i \in DOMAIN HistoryKeys |->
            IF i \in KeysOf(network, isMainnet)
            THEN Len(ContractsOf(HistoryKeys[i].key)) ELSE 0])

Networks == {"Ethereum", "Base"}

\* C18: every chain key with transactions adds its transaction count and its
\* contract count to one bucket of one network: the mainnet bucket if the key
\* contains "mainnet", the testnet bucket otherwise, of "Ethereum" if the key
\* starts with "eth" and of "Base" otherwise, whatever the order of the keys.
C18_OneBucketPerKey ==
  (Transformed /\ HasHistory) =>
    /\ \A i \in DOMAIN onchainData.chains : onchainData.chains[i].name \in Networks
    /\ \A network \in Networks :
         LET at == {i \in DOMAIN onchainData.chains :
                      onchainData.chains[i].name = network}
         IN /\ Cardinality(at) =
                 IF KeysOf(network, TRUE) \cup KeysOf(network, FALSE) = {} THEN 0 ELSE 1
            /\ \A i \in at :
                 LET chain == onchainData.chains[i]
                 IN /\ chain.mainnet.transactions = TransactionsOf(network, TRUE)
                    /\ chain.testnet.transactions = TransactionsOf(network, FALSE)
                    /\ chain.mainnet.contracts = DeployedOf(network, TRUE)
                    /\ chain.testnet.contracts = DeployedOf(network, FALSE)

\* eth-testnet with 3 transactions before eth-mainnet with 5: one network,
\* Ethereum, with 5 and 3 transactions and score 16
C18_Witness ==
  /\ Transformed
  /\ HasHistory
  /\ Len(HistoryKeys) = 2
  /\ HistoryKeys[1].key = EthTestnet /\ Len(HistoryKeys[1].value) = 3
  /\ HistoryKeys[2].key = EthMainnet /\ Len(HistoryKeys[2].value) = 5
  /\ Len(ContractsOf(EthMainnet)) = 3
  /\ Len(onchainData.chains) = 1
  /\ onchainData.chains[1].name = "Ethereum"
  /\ onchainData.chains[1].mainnet.transactions = 5
  /\ onchainData.chains[1].testnet.transactions = 3
  /\ onchainData.chains[1].mainnet.contracts = 3
  /\ onchainData.chains[1].score = 16

(***************************************************************************)
(* Network score: properties                                               *)
(***************************************************************************)
\* the orders in which the chain keys of onchainHistory can be listed
Reorderings ==
  {order \in [DOMAIN HistoryKeys -> DOMAIN HistoryKeys] :
     \A i, j \in DOMAIN HistoryKeys : i # j => order[i] # order[j]}

\* the snapshot with its chain keys listed in another order
Reordered(order) ==
  [userData EXCEPT !.onchainHistory =
     Object([i \in DOMAIN HistoryKeys |-> HistoryKeys[order[i]]])]

\* the score each network ends with
ScoresOf(chains) == {<<chains[i].name, chains[i].score>> : i \in DOMAIN chains}

\* twice the transactions of a network, at most 100
CappedDouble(group) ==
  LET twice == 2 * (group.mainnet.transactions + group.testnet.transactions)
  IN IF twice > 100 THEN 100 ELSE twice

\* C19: after each chain-key merge, and in the result, the score of every
\* network is min(2 * (mainnet + testnet transactions), 100), at most 100,
\* and the same in whatever order the chain keys are merged.
C19_ScoreIsCappedDouble ==
  (Transformed /\ HasHistory) =>
    /\ \A n \in 0..Len(HistoryKeys) :
         LET chainGroups == ChainGroupsAfter(userData, n)
         IN \A i \in DOMAIN chainGroups :
              /\ chainGroups[i].score = CappedDouble(chainGroups[i])
              /\ chainGroups[i].score <= 100
    /\ \A i \in DOMAIN onchainData.chains :
         /\ onchainData.chains[i].score = CappedDouble(onchainData.chains[i])
         /\ onchainData.chains[i].score <= 100
    /\ \A order \in Reorderings :
         ScoresOf(processOnchainData(Reordered(order)).chains) =
           ScoresOf(onchainData.chains)

\* two chains of one network with 26 transactions each: 52 after the second
\* merge, and the score stays 100
C19_Witness ==
  /\ Transformed
  /\ HasHistory
  /\ Len(HistoryKeys) = 2
  /\ HistoryKeys[1].key = EthMainnet /\ Len(HistoryKeys[1].value) = 26
  /\ HistoryKeys[2].key = EthTestnet /\ Len(HistoryKeys[2].value) = 26
  /\ ChainGroupsAfter(userData, 1)[1].score = 52
  /\ Len(onchainData.chains) = 1
  /\ onchainData.chains[1].transactions = 52
  /\ onchainData.chains[1].score = 100

(***************************************************************************)
(* Unique users: properties                                                *)
(***************************************************************************)
\* every contract record of every chain key of contractsDeployed
ContractRecords ==
  IF userData.contractsDeployed = Undefined THEN <<>>
  ELSE LET deployed == userData.contractsDeployed.entries
       IN Flat([i \in DOMAIN deployed |-> deployed[i].value])

\* the uniqueUsers of the records, null and undefined counted as 0
UsersOfRecords ==
  SumSeq([i \in DOMAIN ContractRecords |->
            IF ContractRecords[i].uniqueUsers.kind = "number"
            THEN ContractRecords[i].uniqueUsers.value ELSE 0])

\* C20 as stated: the reported unique users are the sum over every contract
\* record of contractsDeployed, whatever onchainHistory holds.
C20_UsersFromContracts ==
  (Transformed /\ userData # Null) => onchainData.uniqueUsers = UsersOfRecords

\* C20: when onchainHistory has a chain key, the reported unique users are the
\* sum of uniqueUsers over every contract record of every chain key of
\* contractsDeployed, null and undefined counted as 0, whether or not the
\* chain key has transactions in onchainHistory.
C20_UsersFromContractsWithHistory ==
  (Transformed /\ HasHistory) => onchainData.uniqueUsers = UsersOfRecords

\* the records [10, null, 5] of eth-mainnet, which has no transactions in
\* onchainHistory, are counted: 15
C20_Witness ==
  /\ Transformed
  /\ HasHistory
  /\ \A i \in DOMAIN HistoryKeys : HistoryKeys[i].key # EthMainnet
  /\ Len(ContractRecords) = 3
  /\ ContractsOf(EthMainnet) =
       <<Contract(Number(10)), Contract(Null), Contract(Number(5))>>
  /\ \A i \in DOMAIN onchainData.chains : onchainData.chains[i].uniqueUsers = 0
  /\ onchainData.uniqueUsers = 15

(***************************************************************************)
(* The transforms without data: properties                                 *)
(***************************************************************************)
NoCalendarData == ~HasCalendar \/ CalendarEntries = <<>>

NoHistoryData == ~HasHistory

NoContractData == ContractRecords = <<>>

\* a chain key of one collection that the other does not have
KeyMismatch ==
  /\ HasHistory
  /\ userData.contractsDeployed # Undefined
  /\ LET deployed == userData.contractsDeployed.entries
         Keys(entries) == {entries[i].key : i \in DOMAIN entries}
     IN Keys(deployed) # Keys(HistoryKeys)

NoneRaised ==
  /\ githubActivity # TypeError
  /\ onchainActivity # TypeError
  /\ onchainData # TypeError

EmptyCalendarResult ==
  /\ githubActivity.contributionsByDay = <<>>
  /\ githubActivity.contributionMonths = <<>>
  /\ githubActivity.totalContributions = 0
  /\ githubActivity.availableYears = <<>>

EmptyDayResult ==
  /\ onchainActivity.transactionsByDay = <<>>
  /\ onchainActivity.activityMonths = <<>>
  /\ onchainActivity.totalTransactions = 0
  /\ onchainActivity.availableYears = <<>>

EmptySummary ==
  /\ onchainData.totalTransactions = 0
  /\ onchainData.chains = <<>>
  /\ onchainData.chainCount = 0
  /\ onchainData.topChain = ""
  /\ onchainData.uniqueUsers = 0

\* C21 as stated: no transform raises, and each transform returns the
\* all-zero/empty result when a collection it reads is absent or empty or
\* the chain keys of onchainHistory and contractsDeployed differ.
C21_AllZeroWithoutData ==
  Transformed =>
    /\ NoneRaised
    /\ NoCalendarData => EmptyCalendarResult
    /\ NoHistoryData => EmptyDayResult
    /\ (NoHistoryData \/ NoContractData \/ KeyMismatch) => EmptySummary

\* C21: no transform raises; without calendar entries the calendar result is
\* all-zero/empty; without a chain key in onchainHistory the day series and
\* the summary are all-zero/empty; without contract records every contract
\* count and unique-user count is 0; and a network whose chain keys
\* contractsDeployed does not have reports 0 contracts.
C21_SafeWithoutData ==
  Transformed =>
    /\ NoneRaised
    /\ NoCalendarData => EmptyCalendarResult
    /\ NoHistoryData => (EmptyDayResult /\ EmptySummary)
    /\ (HasHistory /\ NoContractData) =>
         /\ onchainData.uniqueUsers = 0
         /\ \A i \in DOMAIN onchainData.chains :
              /\ onchainData.chains[i].contracts = 0
              /\ onchainData.chains[i].uniqueUsers = 0
    /\ HasHistory =>
         \A i \in DOMAIN onchainData.chains :
           (\A k \in DOMAIN HistoryKeys :
              NetworkName(HistoryKeys[k].key) = onchainData.chains[i].name
                => ContractsOf(HistoryKeys[k].key) = <<>>)
           => onchainData.chains[i].contracts = 0

\* base-mainnet has transactions and no contract list, eth-mainnet has a
\* contract list and no transactions: a result, with 0 contracts for Base
C21_Witness ==
  /\ Transformed
  /\ KeyMismatch
  /\ \E k \in DOMAIN HistoryKeys :
       /\ HistoryKeys[k].key = BaseMainnet
       /\ Len(HistoryKeys[k].value) = 3
  /\ ContractsOf(BaseMainnet) = <<>>
  /\ Len(ContractsOf(EthMainnet)) = 3
  /\ \A k \in DOMAIN HistoryKeys : HistoryKeys[k].key # EthMainnet
  /\ NoneRaised
  /\ Len(onchainData.chains) = 1
  /\ onchainData.chains[1].name = "Base"
  /\ onchainData.chains[1].transactions = 3
  /\ onchainData.chains[1].contracts = 0

(***************************************************************************)
(* Snapshot fetch: properties                                              *)
(***************************************************************************)
\* a step in which a fetch fails or its response lacks userData
FetchFails ==
  \E request \in fetches :
    \/ \E body \in ResponseBodies(request.username) : fetchMissesData(request, body)
    \/ \E err \in Rejections : fetchRejected(request, err)

\* C22: when the fetch fails or its response lacks data.userData, the view
\* is in the error state (loading false, a message, the error page) and the
\* failure issues no request; a request is issued only by the effect, for a
\* username it has not run for.
C22_FailureEndsInError ==
  [][/\ FetchFails =>
          /\ loading' = FALSE
          /\ error' # ""
          /\ View' = "error"
          /\ issued' = issued
          /\ fetches' \subseteq fetches
     /\ issued' # issued =>
          /\ fetchedFor # <<usernameProp>>
          /\ issued' = issued + 1]_vars

\* the only fetch of the view has failed: the error page, nothing in flight
C22_Witness ==
  /\ issued = 1
  /\ fetches = {}
  /\ fetchedFor = <<usernameProp>>
  /\ userData = Null
  /\ loading = FALSE
  /\ error = MissingData
  /\ View = "error"

\* every fetch the view issued has settled, for the username it now has
FetchesSettled ==
  /\ fetches = {}
  /\ usernameProp # NoUsername
  /\ fetchedFor = <<usernameProp>>

\* C28: once every outstanding fetch has settled, a snapshot on display is
\* the one fetched for the current username prop.
C28_ShowsCurrentUsername ==
  (FetchesSettled /\ View = "profile") => userData = SnapshotOf(usernameProp)

(***************************************************************************)
(* Status poller: requests in flight                                       *)
(***************************************************************************)
\* C23: at most one status request of a polling session is in flight.
C23_OneRequestInFlight == \A timer \in DOMAIN requests : requests[timer] <= 1

\* a response arrives for a request of an interval that has been cleared
StaleResponse(timer, body) == timer \notin LiveHandles /\ pollResponse(timer, body)

\* C24 as stated: a response that arrives after the interval was cleared, on
\* COMPLETED, on FAILED or on unmount, replaces the held snapshot.
C24_StaleResponseReplaces ==
  [][\A timer \in DOMAIN requests, body \in SampleResponses :
       StaleResponse(timer, body) => statusData' = body]_vars

\* C24: while the view is mounted, a response that arrives after the
\* interval was cleared replaces the held snapshot in full; after the unmount
\* there is no snapshot to replace and the one last held stays.
C24_StaleResponseReplacesWhileMounted ==
  [][\A timer \in DOMAIN requests, body \in SampleResponses :
       StaleResponse(timer, body) =>
         /\ mounted => (statusData' = body /\ progressShown' = calculateProgress(body))
         /\ ~mounted => statusData' = statusData]_vars

\* the only session has observed COMPLETED, its interval is cleared, and the
\* snapshot held is a later PROCESSING response
C24_Witness ==
  /\ mounted
  /\ Len(hist) = 1
  /\ hist[1].completed = 1
  /\ 1 \notin LiveHandles
  /\ statusData = StatusResponse("PROCESSING", Undefined)

(***************************************************************************)
(* Calendar transform: day alignment                                       *)
(***************************************************************************)
\* no two day entries of the calendar have the same date
DistinctDates ==
  \A i, j \in DOMAIN CalendarEntries :
    i # j => DatePortion(CalendarEntries[i].date) # DatePortion(CalendarEntries[j].date)

\* the contribution count entered for the i-th calendar day of the year
CountOnDay(year, i) ==
  LET day == DayNumber(year, 1, 1) + i - 1
      at == {k \in DOMAIN CalendarEntries : DatePortion(CalendarEntries[k].date) = day}
  IN IF at = {} THEN 0
     ELSE CalendarEntries[CHOOSE k \in at : \A other \in at : k <= other].contributionCount

\* the sum of the counts of the entries whose date is written in the year
SubtotalOf(year) ==
  LET ofYear == Filter(CalendarEntries,
                       {k \in DOMAIN CalendarEntries :
                          DateYear(CalendarEntries[k].date) = year})
  IN SumSeq([k \in DOMAIN ofYear |-> ofYear[k].contributionCount])

\* the sum of a series, most of whose elements are 0
SeriesSum(series) ==
  LET counted == Filter(series, {i \in DOMAIN series : series[i] # 0})
  IN SumSeq(counted)

\* C25: for a target year that has entries, element i of the daily series is
\* the count of the entry dated the i-th calendar day of that year, 0 when
\* there is none, and the series sums to the subtotal of the year.
C25_SeriesAlignedWithDates ==
  (Transformed /\ HasCalendar /\ DistinctDates) =>
    LET target == YearToUse(selectedGithubYear, githubActivity.availableYears,
                            currentYear)
        series == githubActivity.contributionsByDay
    IN (\E k \in DOMAIN CalendarEntries : DatedIn(CalendarEntries[k], target)) =>
         /\ \A i \in DOMAIN series : series[i] = CountOnDay(target, i)
         /\ SeriesSum(series) = SubtotalOf(target)

(***************************************************************************)
(* Day series: the target year                                             *)
(***************************************************************************)
\* the years written in the dates of the entries
WrittenYears(entries) == {DateYear(entries[k].date) : k \in DOMAIN entries}

\* every entry falls, in the browser's time zone, in the year its date says
YearsAsWritten(entries) ==
  \A k \in DOMAIN entries :
    getFullYear(timeZone, NewDate(entries[k].date)) = DateYear(entries[k].date)

Latest(years) == CHOOSE year \in years : \A other \in years : other <= year

\* the target year the claim gives: the selected one, else the latest present
TargetYear(selectedYear, entries) ==
  IF selectedYear # 0 THEN selectedYear
  ELSE IF WrittenYears(entries) # {} THEN Latest(WrittenYears(entries))
  ELSE currentYear

\* the years in ascending order, each once
ListsYears(availableYears, years) ==
  /\ Elements(availableYears) = years
  /\ \A i, j \in DOMAIN availableYears : i < j => availableYears[i] < availableYears[j]

TransactionsIn(year) ==
  Cardinality({k \in DOMAIN HistoryEntries : DateYear(HistoryEntries[k].date) = year})

CombinedOf(network) == TransactionsOf(network, TRUE) + TransactionsOf(network, FALSE)

\* the networks that have transactions
ActiveNetworks ==
  IF HasHistory THEN {network \in Networks : CombinedOf(network) > 0} ELSE {}

\* the network of the first chain key that has transactions
FirstCreated ==
  LET withTxs == {k \in DOMAIN HistoryKeys : Len(HistoryKeys[k].value) > 0}
      first == CHOOSE k \in withTxs : \A other \in withTxs : k <= other
  IN IF SubSeq(HistoryKeys[first].key, 1, 3) = <<"e", "t", "h">>
     THEN "Ethereum" ELSE "Base"

\* C27: the top chain is the network with the highest combined transaction
\* count, the one created first among networks with equal counts, and the
\* empty string when there is no network.
C27_TopChain ==
  Transformed =>
    IF ActiveNetworks = {} THEN onchainData.topChain = ""
    ELSE /\ onchainData.topChain \in ActiveNetworks
         /\ \A network \in ActiveNetworks :
              CombinedOf(network) <= CombinedOf(onchainData.topChain)
         /\ (\A network \in ActiveNetworks :
               CombinedOf(network) = CombinedOf(onchainData.topChain))
            => onchainData.topChain = FirstCreated

\* base-mainnet first and eth-mainnet second, 5 transactions each: Base
C27_Witness ==
  /\ Transformed
  /\ HasHistory
  /\ Len(HistoryKeys) = 2
  /\ HistoryKeys[1].key = BaseMainnet /\ Len(HistoryKeys[1].value) = 5
  /\ HistoryKeys[2].key = EthMainnet /\ Len(HistoryKeys[2].value) = 5
  /\ onchainData.chainCount = 2
  /\ onchainData.topChain = "Base"

(***************************************************************************)
(* The wallet list: properties                                             *)
(***************************************************************************)
\* the ids in use
WalletIds == {wallets[i].id : i \in DOMAIN wallets}

\* C29: after every addWallet, removeWallet and updateWallet the list holds
\* between 1 and 3 entries, and updateWallet changes nothing but the address
\* and the isValid flag of the entry with the given id.
C29_WalletListBounds ==
  [][/\ Len(wallets') >= 1
     /\ Len(wallets') <= MaxWallets
     /\ \A id \in WalletIds, address \in WalletEdits :
          updateWallet(id, address) =>
            /\ Len(wallets') = Len(wallets)
            /\ Cardinality({i \in DOMAIN wallets : wallets'[i] # wallets[i]}) <= 1
            /\ \A i \in DOMAIN wallets :
                 /\ wallets'[i].id = wallets[i].id
                 /\ wallets[i].id # id => wallets'[i] = wallets[i]]_vars

(***************************************************************************)
(* handleSubmit and a failed POST: properties                              *)
(***************************************************************************)
\* C30: a failed POST opens no modal and starts no poll timer, and in a
\* mounted view isSubmitting is true exactly while the POST is outstanding:
\* from the submit that passed validation until the POST has resolved or
\* has been rejected.
C30_FailedPostStartsNothing ==
  [][/\ postRejected =>
          /\ isModalOpen' = isModalOpen
          /\ intervals' = intervals
          /\ pollingInterval' = pollingInterval
          /\ hist' = hist
          /\ mounted => isSubmitting' = FALSE
     /\ mounted' => (isSubmitting' <=> post' # <<>>)
     /\ (post = <<>> /\ post' # <<>>) => allValid]_vars

\* a submit has passed validation and its POST is outstanding
C30_Witness ==
  /\ mounted
  /\ post # <<>>
  /\ isSubmitting
  /\ ~isModalOpen
  /\ intervals = {}
  /\ pollingInterval = 0

====
